---- MODULE Spec2Model ----
(***************************************************************************)
(* Model of the AutoMigrate tracking plugin (src/plugin.go).               *)
(*                                                                         *)
(* The plugin registers two callbacks in the host's migrator extension     *)
(* point.  The host runs, for one AutoMigrate call on one db instance:     *)
(* the before callbacks, the schema synchronization, the after callbacks.  *)
(* Several AutoMigrate calls may be in flight at once, each on its own db  *)
(* instance; their steps interleave.  The ledger is the schema_versions    *)
(* table, with a unique index on the version column.                       *)
(*                                                                         *)
(* A call takes three steps, with the clock and the other calls free to    *)
(* move in between: the before callback; the end of the synchronization    *)
(* with the after callback up to the record it builds; the insert of the   *)
(* record with the return.  Initialize is such a call on a db instance of  *)
(* its own, followed by one step for each of its two registrations.        *)
(*                                                                         *)
(* The host is outside the repository.  Of it the model takes: callbacks   *)
(* are registered by name and all run whether or not the db carries an     *)
(* error; InstanceSet / InstanceGet are scoped to the db instance;         *)
(* db.AddError accumulates errors on the db instance, which the operation  *)
(* (db.AutoMigrate, db.Create) returns.  db.Create in afterAutoMigrate     *)
(* runs on the db instance of the call: it does nothing when that instance *)
(* already carries an error; otherwise it performs the write, subject to   *)
(* the unique index and to the storage being reachable, and leaves its own *)
(* failure on the instance, before the one the plugin adds.                *)
(*                                                                         *)
(* Strings built by concatenation are modelled as sequences of tokens, so  *)
(* that a separator, a terminator and an empty name stay visible.          *)
(* Instants are clock ticks; TicksPerSecond of them make one second, the   *)
(* precision of the layout "20060102150405".                               *)
(***************************************************************************)
EXTENDS Integers, Sequences, FiniteSets, TLC

\* ------------------------------------------------------------------ bounds
NumInv == 2
MaxClock == 2
TicksPerSecond == 2

\* The db instances of the application's AutoMigrate calls, the db instance of
\* the call Initialize makes, and all of them.
Instances == 1..NumInv
InitInstance == 0
Calls == {InitInstance} \cup Instances

\* ------------------------------------------------------------- data values
NoValue == -1

\* A model handed to AutoMigrate: a struct value, a pointer to a struct, or nil.
StructModel(n) == [kind |-> "struct", name |-> n]
PtrModel(n) == [kind |-> "ptr", name |-> n]
NilModel == [kind |-> "nil", name |-> ""]

\* The value of db.Get("gorm:auto_migrate_models"): absent, not a
\* []interface{}, or a slice of models.
Absent == [ok |-> FALSE, slice |-> FALSE, items |-> <<>>]
NotSlice == [ok |-> TRUE, slice |-> FALSE, items |-> <<>>]
Slice(s) == [ok |-> TRUE, slice |-> TRUE, items |-> s]

\* The model list of the calls of the concurrent specification.
ModelValues == { Slice(<<StructModel("Order")>>) }

\* Every shape of model list, for the specification of the change log.
AllModelValues ==
    { Absent, NotSlice, Slice(<<>>),
      Slice(<<StructModel("Order")>>),
      Slice(<<StructModel("Order"), StructModel("User")>>),
      Slice(<<StructModel("User"), StructModel("Order"), StructModel("Item")>>),
      Slice(<<PtrModel("User")>>),
      Slice(<<StructModel("Order"), PtrModel("User")>>),
      Slice(<<NilModel>>),
      Slice(<<StructModel("Order"), NilModel>>) }

\* Initialize passes &SchemaVersion{}.
InitModelValues == { Slice(<<PtrModel("SchemaVersion")>>) }

BeforeName == "automigrate_plugin:before_auto_migrate"
AfterName == "automigrate_plugin:after_auto_migrate"

ErrSync == "sync failed"
ErrNoStart == "start time not found"
ErrDuplicated == "duplicated key"
ErrStorage == "storage unavailable"
ErrConflict == "failed to record schema version: conflict"
ErrUnavailable == "failed to record schema version: unavailable"
ErrRecordSync == "failed to record schema version: sync failed"
ErrTable == "failed to create schema version table"
ErrRegBefore == "failed to register before_auto_migrate callback"
ErrRegAfter == "failed to register after_auto_migrate callback"
ErrHistory == "failed to retrieve migration history"

VARIABLES
    clock,        \* time.Now()
    table,        \* rows of the schema_versions table, in insertion order
    tableExists,  \* the table has been created
    schema,       \* names of the entities whose schema has been synchronized
    callbacks,    \* names registered in db.Callback().Migrator()
    settings,     \* the store behind InstanceSet / InstanceGet
    inv,          \* the db instances of the AutoMigrate calls in flight
    crashed,      \* a callback panicked
    ret           \* what the operation that returned in the last step returned

vars == <<clock, table, tableExists, schema, callbacks, settings, inv, crashed,
          ret>>

\* No SchemaVersion value built yet.
NoRec == [ID |-> 0, Version |-> NoValue, AppliedAt |-> NoValue, Changes |-> <<>>]

\* A db instance: where its call stands, the models of the call, the start
\* time beforeAutoMigrate captured, the SchemaVersion value afterAutoMigrate
\* built, the errors added so far.
IdleInv == [pc |-> "idle", models |-> Absent, startTime |-> NoValue,
            rec |-> NoRec, errs |-> <<>>]

NoRet == [op |-> "none", rows |-> <<>>, err |-> <<>>]

\* ------------------------------------------------------------ pure helpers

\* time.Time.Format("20060102150405"): the instant truncated to its second.
Format(t) == t \div TicksPerSecond

SharedKey(i) == 0

\* The key InstanceSet / InstanceGet use: the key scoped to the db instance.
InstanceKey(i) == i

\* reflect.TypeOf(model).Name(): the type's name, empty for a pointer type.
TypeName(m) == IF m.kind = "struct" THEN m.name ELSE ""

\* reflect.TypeOf(nil) is nil, and Name() on it panics.
Panics(m) == m.ok /\ m.slice /\ \E k \in 1..Len(m.items) : m.items[k].kind = "nil"

RECURSIVE ChangeLines(_)
ChangeLines(items) ==
    IF items = <<>> THEN <<>>
    ELSE <<"AutoMigrated ", TypeName(Head(items)), "\n">> \o ChangeLines(Tail(items))

Sentinel == <<"No specific models found, general AutoMigrate performed">>
Unable == <<"Unable to determine migrated models">>

generateChangeLog(m) ==
    IF m.ok
    THEN IF ~m.slice THEN Unable ELSE ChangeLines(m.items)
    ELSE Sentinel

BuildRecordUnset(start, now, m) ==
    [ID |-> 0, Version |-> start \div TicksPerSecond, AppliedAt |-> 0,
     Changes |-> generateChangeLog(m)]

\* The SchemaVersion value afterAutoMigrate builds from the start time it
\* retrieved, the current time and the models.
BuildRecord(start, now, m) ==
    [ID |-> 0, Version |-> Format(start), AppliedAt |-> now,
     Changes |-> generateChangeLog(m)]

Versions(t) == { t[k].Version : k \in 1..Len(t) }

CreateUpsert(t, r) ==
    IF r.Version \in Versions(t)
    THEN [k \in 1..Len(t) |-> IF t[k].Version = r.Version
                              THEN [r EXCEPT !.ID = k] ELSE t[k]]
    ELSE Append(t, [r EXCEPT !.ID = Len(t) + 1])

\* db.Create on the table with the unique index on Version: the error, and
\* the table afterwards.
CreateError(t, r) == r.Version \in Versions(t)

CreateNoIndex(t, r) == Append(t, [r EXCEPT !.ID = Len(t) + 1])

Create(t, r) ==
    IF CreateError(t, r) THEN t
    ELSE Append(t, [r EXCEPT !.ID = Len(t) + 1])

\* Order("applied_at desc"): the orders the storage may return the rows in.
IsDesc(s) == \A k \in 1..(Len(s) - 1) : s[k].AppliedAt >= s[k + 1].AppliedAt

Perms(t) ==
    { [k \in 1..Len(t) |-> t[p[k]]] :
        p \in { q \in [1..Len(t) -> 1..Len(t)] :
                  \A a, b \in 1..Len(t) : a # b => q[a] # q[b] } }

IsAsc(s) == \A k \in 1..(Len(s) - 1) : s[k].AppliedAt <= s[k + 1].AppliedAt

OrderAsc(t) == { s \in Perms(t) : IsAsc(s) }

OrderDesc(t) == { s \in Perms(t) : IsDesc(s) }

AddErrorDropped(errs, e) == errs

\* db.AddError: the error joins the errors of the db instance.
AddError(errs, e) == Append(errs, e)

\* The entities whose schema a successful synchronization of the models has
\* brought up to date.
Synchronized(m) ==
    { m.items[k].name : k \in { j \in 1..Len(m.items) : m.items[j].kind # "nil" } }

\* Register by name: a name registered again replaces the earlier entry.
Register(cbs, name) == cbs \cup {name}

\* ------------------------------------------------------------------- Init
Init ==
    /\ clock = 0
    /\ table = <<>>
    /\ tableExists = FALSE
    /\ schema = {}
    /\ callbacks = {}
    /\ settings = [k \in Calls |-> NoValue]
    /\ inv = [i \in Calls |-> IdleInv]
    /\ crashed = FALSE
    /\ ret = NoRet

\* ---------------------------------------------------------------- actions

Tick ==
    /\ ~crashed
    /\ clock < MaxClock
    /\ clock' = clock + 1
    /\ ret' = NoRet
    /\ UNCHANGED <<table, tableExists, schema, callbacks, settings, inv, crashed>>

\* db.AutoMigrate(models...) begins on a fresh db instance (for the
\* application's calls the lowest free one); the host runs the before
\* callbacks: beforeAutoMigrate, when registered.
beforeAutoMigrate(i, m) ==
    /\ ~crashed
    /\ inv[i].pc = "idle"
    /\ \A j \in Instances : j < i => inv[j].pc # "idle"
    /\ IF BeforeName \in callbacks
       THEN /\ inv' = [inv EXCEPT ![i] = [IdleInv EXCEPT !.pc = "sync",
                                                        !.models = m,
                                                        !.startTime = clock]]
            /\ settings' = [settings EXCEPT ![InstanceKey(i)] = clock]
       ELSE /\ inv' = [inv EXCEPT ![i] = [IdleInv EXCEPT !.pc = "sync",
                                                        !.models = m]]
            /\ UNCHANGED settings
    /\ ret' = NoRet
    /\ UNCHANGED <<clock, table, tableExists, schema, callbacks, crashed>>

\* db.AutoMigrate returns the errors of its db instance, and the instance is
\* dropped.  The application's call returns them to the application; the call
\* made by Initialize returns them to Initialize, which returns at once when
\* there is one and goes on to the registrations otherwise.
Returns(i, errs) ==
    /\ settings' = [settings EXCEPT ![InstanceKey(i)] = NoValue]
    /\ IF i # InitInstance
       THEN /\ inv' = [inv EXCEPT ![i] = IdleInv]
            /\ ret' = [op |-> "AutoMigrate", rows |-> <<>>, err |-> errs]
       ELSE IF errs # <<>>
       THEN /\ inv' = [inv EXCEPT ![i] = IdleInv]
            /\ ret' = [op |-> "Initialize", rows |-> <<>>,
                       err |-> <<ErrTable>> \o errs]
       ELSE /\ inv' = [inv EXCEPT ![i] = [IdleInv EXCEPT !.pc = "regBefore"]]
            /\ ret' = NoRet

\* The host's schema synchronization ends (a failure is added to the db's
\* errors) and the host runs the after callbacks: afterAutoMigrate, when
\* registered, up to the SchemaVersion value it builds.  Without the callback,
\* or without a start time, the call returns here.
afterAutoMigrate(i, syncOk) ==
    LET synced == IF syncOk THEN <<>> ELSE <<ErrSync>>
        hooked == AfterName \in callbacks
        startTime == settings[InstanceKey(i)]
        rec == BuildRecord(startTime, clock, inv[i].models)
    IN  /\ ~crashed
        /\ inv[i].pc = "sync"
        /\ schema' = IF syncOk THEN schema \cup Synchronized(inv[i].models)
                      ELSE schema
        /\ tableExists' = (tableExists \/ (syncOk /\ i = InitInstance))
        /\ IF ~hooked
           THEN /\ Returns(i, synced)
                /\ UNCHANGED crashed
           ELSE IF startTime = NoValue
           THEN /\ Returns(i, AddError(synced, ErrNoStart))
                /\ UNCHANGED crashed
           ELSE IF Panics(inv[i].models)
           THEN /\ crashed' = TRUE
                /\ inv' = [inv EXCEPT ![i].pc = "panicked"]
                /\ ret' = NoRet
                /\ UNCHANGED settings
           ELSE /\ inv' = [inv EXCEPT ![i].pc = "create", ![i].rec = rec,
                                      ![i].errs = synced]
                /\ ret' = NoRet
                /\ UNCHANGED <<settings, crashed>>
        /\ UNCHANGED <<clock, table, callbacks>>

NeverSkipped(errs) == FALSE

\* db.Create on a db instance that carries an error does nothing.
CreateSkipped(errs) == errs # <<>>

\* db.Create(&schemaVersion) on the db instance of the call, and the test of
\* its Error: nothing is written when the instance carries the error of the
\* synchronization; otherwise the insert reaches the storage, and a failure of
\* it is left on the instance.  Whenever the Error is not nil afterAutoMigrate
\* adds its own error.  Then the callback and the call return.  avail is
\* whether the storage can be reached.
CreateRecord(i, avail) ==
    LET rec == inv[i].rec
        carried == inv[i].errs
        skipped == CreateSkipped(carried)
        reached == avail /\ tableExists
        stored == ~skipped /\ reached
        errs == IF skipped THEN AddError(carried, ErrRecordSync)
                ELSE IF ~reached
                THEN AddError(AddError(carried, ErrStorage), ErrUnavailable)
                ELSE IF CreateError(table, rec)
                THEN AddError(AddError(carried, ErrDuplicated), ErrConflict)
                ELSE carried
    IN  /\ ~crashed
        /\ inv[i].pc = "create"
        /\ table' = IF stored THEN Create(table, rec) ELSE table
        /\ Returns(i, errs)
        /\ UNCHANGED <<clock, tableExists, schema, callbacks, crashed>>

\* Initialize begins: db.AutoMigrate(&SchemaVersion{}) on a db instance of its
\* own, which passes through the callbacks registered so far.
Initialize(m) == beforeAutoMigrate(InitInstance, m)

\* Initialize, after its AutoMigrate returned no error: the registration of the
\* before callback.
RegisterBefore(ok) ==
    /\ ~crashed
    /\ inv[InitInstance].pc = "regBefore"
    /\ IF ok
       THEN /\ callbacks' = Register(callbacks, BeforeName)
            /\ inv' = [inv EXCEPT ![InitInstance].pc = "regAfter"]
            /\ ret' = NoRet
       ELSE /\ inv' = [inv EXCEPT ![InitInstance] = IdleInv]
            /\ ret' = [op |-> "Initialize", rows |-> <<>>, err |-> <<ErrRegBefore>>]
            /\ UNCHANGED callbacks
    /\ UNCHANGED <<clock, table, tableExists, schema, settings, crashed>>

\* Initialize: the registration of the after callback, and the return.
RegisterAfter(ok) ==
    /\ ~crashed
    /\ inv[InitInstance].pc = "regAfter"
    /\ inv' = [inv EXCEPT ![InitInstance] = IdleInv]
    /\ IF ok
       THEN /\ callbacks' = Register(callbacks, AfterName)
            /\ ret' = [op |-> "Initialize", rows |-> <<>>, err |-> <<>>]
       ELSE /\ ret' = [op |-> "Initialize", rows |-> <<>>, err |-> <<ErrRegAfter>>]
            /\ UNCHANGED callbacks
    /\ UNCHANGED <<clock, table, tableExists, schema, settings, crashed>>

PartialRows(rows) == rows

\* What GetMigrationHistory returns for the history when the read fails: nil,
\* whatever Find had put in the slice.
FailedRows(rows) == <<>>

\* GetMigrationHistory: the rows ordered by applied_at descending, or nil and
\* an error when the read fails.
GetMigrationHistory(avail, rows) ==
    /\ ~crashed
    /\ IF avail /\ tableExists
       THEN /\ rows \in OrderDesc(table)
            /\ ret' = [op |-> "GetMigrationHistory", rows |-> rows, err |-> <<>>]
       ELSE /\ ret' = [op |-> "GetMigrationHistory", rows |-> FailedRows(rows),
                       err |-> <<ErrHistory>>]
    /\ UNCHANGED <<clock, table, tableExists, schema, callbacks, settings, inv,
                   crashed>>

\* --------------------------------------------------------- specifications

\* Concurrent AutoMigrate calls, Initialize and history reads.
Next ==
    \/ Tick
    \/ \E i \in Instances, m \in ModelValues : beforeAutoMigrate(i, m)
    \/ \E i \in Calls, syncOk \in BOOLEAN : afterAutoMigrate(i, syncOk)
    \/ \E i \in Calls, avail \in BOOLEAN : CreateRecord(i, avail)
    \/ \E m \in InitModelValues : Initialize(m)
    \/ \E ok \in BOOLEAN : RegisterBefore(ok)
    \/ \E ok \in BOOLEAN : RegisterAfter(ok)
    \/ \E avail \in BOOLEAN : \E rows \in OrderDesc(table) :
          GetMigrationHistory(avail, rows)

Spec == Init /\ [][Next]_vars

\* One AutoMigrate call after another on an initialized plugin, over every
\* shape of model list.  The initial state is the state in which a first
\* Initialize, with nothing failing, has just returned nil.
InitChangeLog ==
    /\ clock = 0
    /\ table = <<>>
    /\ tableExists = TRUE
    /\ schema = {"SchemaVersion"}
    /\ callbacks = {BeforeName, AfterName}
    /\ settings = [k \in Calls |-> NoValue]
    /\ inv = [i \in Calls |-> IdleInv]
    /\ crashed = FALSE
    /\ ret = [op |-> "Initialize", rows |-> <<>>, err |-> <<>>]

NextChangeLog ==
    \/ Tick
    \/ \E m \in AllModelValues : beforeAutoMigrate(1, m)
    \/ \E syncOk \in BOOLEAN : afterAutoMigrate(1, syncOk)
    \/ \E avail \in BOOLEAN : CreateRecord(1, avail)

SpecChangeLog == InitChangeLog /\ [][NextChangeLog]_vars

\* ------------------------------------------------------------------ claims

HasErr(e, x) == \E k \in 1..Len(e) : e[k] = x

Tokens(c) == { c[k] : k \in 1..Len(c) }

InFlight == {"sync", "create"}

\* The AutoMigrate call of instance i returns in this step.
Ends(i) == inv[i].pc \in InFlight /\ inv'[i].pc \notin InFlight \cup {"panicked"}

\* Both callbacks of the plugin acted on the call of instance i that returns
\* now: it returns from the write afterAutoMigrate asked for.
Hooked(i) == inv[i].pc = "create"

\* C1: when the schema synchronization of a call fails, the call appends no
\* record to the ledger: the ledger is the same before and after every step
\* of a call that carries the error of its synchronization.
C1_NoRecordOnFailedSync ==
    [][/\ (ret'.op = "AutoMigrate" /\ HasErr(ret'.err, ErrSync)) => table' = table
       /\ \A i \in Calls :
             (inv[i].pc = "create" /\ HasErr(inv[i].errs, ErrSync)
                /\ inv'[i] # inv[i])
             => table' = table]_vars

C1_Witness ==
    /\ ret.op = "AutoMigrate"
    /\ ret.err = <<ErrSync, ErrRecordSync>>
    /\ tableExists
    /\ callbacks = {BeforeName, AfterName}
    /\ table = <<>>

\* C2: every successful synchronization that passes through both callbacks,
\* with the storage reachable, appends exactly one record, whose changes hold
\* the name of every entity synchronized.
C2_OneRecordPerSuccessfulSync ==
    [][\A i \in Instances :
          (Ends(i) /\ Hooked(i) /\ ret'.op = "AutoMigrate"
             /\ ~HasErr(ret'.err, ErrSync) /\ ~HasErr(ret'.err, ErrUnavailable))
          => /\ Len(table') = Len(table) + 1
             /\ SubSeq(table', 1, Len(table)) = table
             /\ \A k \in 1..Len(inv[i].models.items) :
                   inv[i].models.items[k].name \in Tokens(table'[Len(table')].Changes)]_vars

\* C3: no two records of the ledger have the same version; an append whose
\* version is already in the ledger leaves the ledger as it was and adds an
\* error to the errors of the call.
C3_UniqueVersions ==
    [][/\ \A a, b \in 1..Len(table') :
             table'[a].Version = table'[b].Version => a = b
       /\ HasErr(ret'.err, ErrConflict) => table' = table
       /\ \A i \in Instances :
             (Ends(i) /\ Hooked(i) /\ ret'.op = "AutoMigrate"
                /\ Format(inv[i].startTime) \in Versions(table))
             => /\ table' = table
                /\ IF inv[i].errs = <<>>
                   THEN HasErr(ret'.err, ErrConflict) \/ HasErr(ret'.err, ErrUnavailable)
                   ELSE HasErr(ret'.err, ErrRecordSync)]_vars

C3_Witness ==
    /\ ret.op = "AutoMigrate"
    /\ HasErr(ret.err, ErrConflict)
    /\ Len(table) >= 1

\* C4: GetMigrationHistory returns every record of the ledger exactly once,
\* each adjacent pair with the earlier appliedAt not before the later one's.
C4_HistoryDescending ==
    (ret.op = "GetMigrationHistory" /\ ret.err = <<>>)
    => /\ Len(ret.rows) = Len(table)
       /\ { ret.rows[k].ID : k \in 1..Len(ret.rows) } = 1..Len(table)
       /\ \A k \in 1..Len(ret.rows) : ret.rows[k] = table[ret.rows[k].ID]
       /\ \A k \in 1..(Len(ret.rows) - 1) :
             ret.rows[k].AppliedAt >= ret.rows[k + 1].AppliedAt

C4_Witness ==
    /\ ret.op = "GetMigrationHistory"
    /\ Len(ret.rows) >= 2
    /\ ret.rows[1].AppliedAt > ret.rows[2].AppliedAt

External == {ErrSync, ErrStorage, ErrUnavailable, ErrRegBefore, ErrRegAfter}

\* C5: a call of Initialize in which the host's synchronization, the storage
\* and the registrations do not fail returns no error, and leaves the table
\* created and the two callbacks installed, however many calls came before.
C5_InitializeIdempotent ==
    (ret.op = "Initialize" /\ Tokens(ret.err) \cap External = {})
    => /\ ret.err = <<>>
       /\ tableExists
       /\ callbacks = {BeforeName, AfterName}

\* C6: the ledger is append-only: every step keeps every record of the ledger
\* as it was, and GetMigrationHistory changes nothing of the ledger.
C6_AppendOnly ==
    [][/\ Len(table') >= Len(table)
       /\ \A k \in 1..Len(table) : table'[k] = table[k]
       /\ ret'.op = "GetMigrationHistory"
             => table' = table /\ tableExists' = tableExists]_vars

C6_Witness ==
    /\ ret.op = "GetMigrationHistory"
    /\ ret.err = <<>>
    /\ Len(table) >= 2

\* C7: the version of every record is the second of its appliedAt.
C7_VersionOfAppliedAt ==
    \A k \in 1..Len(table) : table[k].Version = Format(table[k].AppliedAt)

\* C8: a successful synchronization with no model list, or with an empty one,
\* writes a record whose changes are the sentinel.
C8_SentinelWithoutModels ==
    [][\A i \in Instances :
          (Ends(i) /\ Len(table') = Len(table) + 1
             /\ (~inv[i].models.ok \/ (inv[i].models.slice /\ inv[i].models.items = <<>>)))
          => table'[Len(table')].Changes = Sentinel]_vars

\* The lines "AutoMigrated <name>" of the entities, separated by newlines.
RECURSIVE SeparatedLines(_)
SeparatedLines(items) ==
    IF Len(items) = 1 THEN <<"AutoMigrated ", Head(items).name>>
    ELSE <<"AutoMigrated ", Head(items).name, "\n">> \o SeparatedLines(Tail(items))

\* C9: for a synchronization of n >= 1 entities the changes are the lines
\* "AutoMigrated <name>" in the host's order, separated by newlines, with
\* nothing before or after.
C9_LinesSeparated ==
    [][\A i \in Instances :
          (Ends(i) /\ Len(table') = Len(table) + 1
             /\ inv[i].models.slice /\ Len(inv[i].models.items) >= 1
             /\ \A k \in 1..Len(inv[i].models.items) :
                   inv[i].models.items[k].kind = "struct")
          => table'[Len(table')].Changes = SeparatedLines(inv[i].models.items)]_vars

\* C10: while a call is in flight, the start time InstanceGet returns for its
\* db instance is the one its own beforeAutoMigrate captured.
C10_OwnStartTime ==
    \A i \in Calls :
        (inv[i].pc \in InFlight /\ inv[i].startTime # NoValue)
        => settings[InstanceKey(i)] = inv[i].startTime

C10_Witness ==
    \E i, j \in Instances :
        /\ inv[i].pc = "sync" /\ inv[j].pc = "sync"
        /\ inv[i].startTime # NoValue /\ inv[j].startTime # NoValue
        /\ inv[i].startTime # inv[j].startTime
        /\ Len(table) >= 1

\* C11: when Initialize returns an error, no callback of the plugin is
\* installed in the host.
C11_NoCallbackAfterFailedInitialize ==
    (ret.op = "Initialize" /\ ret.err # <<>>) => callbacks = {}

WriteFailures == {ErrConflict, ErrUnavailable}

\* C12: when the insert of a call that passed through both callbacks fails
\* (conflict or storage unavailable), no record is added, exactly one error
\* joins the errors of the call, and the schema keeps what the synchronization
\* brought.
C12_FailedWriteReportedOnce ==
    [][\A i \in Instances :
          (Ends(i) /\ Hooked(i) /\ ret'.op = "AutoMigrate"
             /\ Tokens(ret'.err) \cap WriteFailures # {})
          => /\ table' = table
             /\ Len(ret'.err) = Len(inv[i].errs) + 1
             /\ schema \subseteq schema'
             /\ Synchronized(inv[i].models) \subseteq schema']_vars

\* An entity of the list has no name the change log can resolve.
Unresolved(m) ==
    m.ok /\ (~m.slice \/ \E k \in 1..Len(m.items) : m.items[k].kind # "struct")

\* C13: whatever the model list, the after callback completes, and the record
\* it writes for a list with an unresolvable name has the fallback as its
\* changes.
C13_DerivationNeverFails ==
    [][\A i \in Instances :
          /\ inv[i].pc = "sync" => inv'[i].pc # "panicked" /\ ~crashed'
          /\ (Ends(i) /\ Len(table') = Len(table) + 1
                 /\ Unresolved(inv[i].models))
                => table'[Len(table')].Changes = Unable]_vars

\* The place of the record with this ID in the returned history.
Place(rows, id) == CHOOSE k \in 1..Len(rows) : rows[k].ID = id

\* C14: in the returned history every record stands before every
\* record written before it.
C14_LaterWriteFirst ==
    (ret.op = "GetMigrationHistory" /\ ret.err = <<>>)
    => \A a, b \in 1..Len(table) :
          a < b => Place(ret.rows, b) < Place(ret.rows, a)

\* C15: the appliedAt of a record is not before the start time that
\* beforeAutoMigrate captured for the same call.
C15_AppliedAtNotBeforeStart ==
    [][/\ \A i \in Calls :
             (Ends(i) /\ Len(table') = Len(table) + 1)
             => table'[Len(table')].AppliedAt >= inv[i].startTime
       /\ \A k \in 1..Len(table') :
             Format(table'[k].AppliedAt) >= table'[k].Version]_vars

C15_Witness ==
    \E k \in 1..Len(table) :
        /\ table[k].AppliedAt > 0
        /\ Format(table[k].AppliedAt) > table[k].Version

\* C16: when afterAutoMigrate runs for a call whose start time was never
\* stored, the call ends normally with the error "start time not found" and
\* the ledger is as before.
C16_NoStartTime ==
    [][\A i \in Instances :
          (inv[i].pc = "sync" /\ inv'[i].pc # "sync"
             /\ AfterName \in callbacks /\ inv[i].startTime = NoValue)
          => /\ inv'[i].pc = "idle"
             /\ ~crashed'
             /\ table' = table
             /\ ret'.op = "AutoMigrate"
             /\ ret'.err \in {<<ErrNoStart>>, <<ErrSync, ErrNoStart>>}]_vars

C16_Witness ==
    /\ ret.op = "AutoMigrate"
    /\ HasErr(ret.err, ErrNoStart)
    /\ AfterName \in callbacks

\* C17: GetMigrationHistory returns either an error and no rows, or no error
\* and as many rows as the ledger has.
C17_ErrorWithoutRows ==
    ret.op = "GetMigrationHistory"
    => \/ ret.err # <<>> /\ ret.rows = <<>>
       \/ ret.err = <<>> /\ Len(ret.rows) = Len(table)

C17_Witness ==
    /\ ret.op = "GetMigrationHistory"
    /\ ret.err = <<ErrHistory>>
    /\ Len(table) >= 1

\* C18: every step of a call of Initialize leaves the records of the ledger as
\* they were.
C18_InitializeWritesNoRecord ==
    [][inv'[InitInstance] # inv[InitInstance] => table' = table]_vars

====
